---- MODULE Spec2Model ----
(***************************************************************************)
(* Model of the Media Downloader & AI Content API (src/main.py).           *)
(*                                                                         *)
(* Python strings that the code inspects character by character (the       *)
(* extractor hint, the title, base URLs, file paths) are sequences of      *)
(* one-character strings.  An Optional value is a record with a `none`     *)
(* flag, so that None and the empty string stay distinct, as they are in   *)
(* Python (both are falsy, only one is None).                              *)
(***************************************************************************)
EXTENDS Integers, Sequences, FiniteSets, TLC

VARIABLES
    \* ---- deployment (module level state of main.py and its environment)
    sinkMode,      \* "absent": create_document/db is None; "ok"; "throws"
    ytdlp,         \* whether `import yt_dlp` succeeds
    backend_url,   \* os.getenv("BACKEND_PUBLIC_URL"), Optional string
    storage,       \* files present under DOWNLOAD_DIR (set of paths)
    sink,          \* documents stored by create_document
    \* ---- one entry per download_media call
    pc,            \* position of the call in download_media
    req,           \* the DownloadRequest and request.base_url
    loc,           \* local variables of download_media
    resp,          \* HTTP status and body returned by the call
    probeCount,    \* number of extract_info(download=False) calls made
    fetchCount,    \* number of extract_info(download=True) calls made
    sinkAttempts,  \* number of create_document calls made
    written,       \* path the fetcher wrote for the call, if any
    \* ---- the generators (whole handlers)
    story,         \* last /api/story request, response and sink attempts
    course,        \* last /api/course request, response and sink attempts
    \* ---- the string functions applied on their own
    labelRun,      \* extractor hint and the platform label derived from it
    titleRun,      \* extracted title and the safe_title derived from it
    urlRun         \* inputs and result of _build_public_file_url

vars == <<sinkMode, ytdlp, backend_url, storage, sink, pc, req, loc, resp,
          probeCount, fetchCount, sinkAttempts, written, story, course,
          labelRun, titleRun, urlRun>>

dlVars == <<storage, sink, pc, req, loc, resp, probeCount, fetchCount,
            sinkAttempts, written>>
envVars == <<sinkMode, ytdlp, backend_url>>
pureVars == <<labelRun, titleRun, urlRun>>

(***************************************************************************)
(* Bounds of the model.                                                    *)
(***************************************************************************)
MaxHintTokens == 2   \* an extractor hint is made of at most this many tokens
MaxTitleLen == 3     \* longest title tried by the title sanitiser
MaxBaseLen == 3      \* longest base URL tried by the URL builder
MaxCount == 22       \* largest chapter/lesson count requested

(***************************************************************************)
(* Python values.                                                          *)
(***************************************************************************)
None == [none |-> TRUE, v |-> <<>>]
Some(x) == [none |-> FALSE, v |-> x]

\* bool(x) of an Optional[str]: None and "" are falsy
Truthy(o) == ~o.none /\ o.v # <<>>

\* `x or d` for an Optional[str] x and a str d
OrElse(o, d) == IF Truthy(o) THEN o.v ELSE d

\* `sub in s`
Contains(sub, s) ==
    \E i \in 0..(Len(s) - Len(sub)) : SubSeq(s, i + 1, i + Len(sub)) = sub

\* s.replace(old, new) for one-character old and new
str_replace(s, old, new) == [i \in DOMAIN s |-> IF s[i] = old THEN new ELSE s[i]]

\* s.endswith(ch)
endswith(s, ch) == Len(s) > 0 /\ s[Len(s)] = ch

\* s.rstrip(ch)
RECURSIVE rstrip(_, _)
rstrip(s, ch) == IF endswith(s, ch) THEN rstrip(SubSeq(s, 1, Len(s) - 1), ch) ELSE s

\* s.lstrip(ch)
RECURSIVE lstrip(_, _)
lstrip(s, ch) == IF Len(s) > 0 /\ s[1] = ch THEN lstrip(Tail(s), ch) ELSE s

\* s.rfind(ch) + 1: the 1-based position of the last ch in s, 0 when absent
RECURSIVE rfind(_, _)
rfind(s, ch) == IF s = <<>> THEN 0
                ELSE IF s[Len(s)] = ch THEN Len(s)
                ELSE rfind(SubSeq(s, 1, Len(s) - 1), ch)

\* string literals of the code
s_youtube == <<"y","o","u","t","u","b","e">>
s_tiktok == <<"t","i","k","t","o","k">>
s_facebook == <<"f","a","c","e","b","o","o","k">>
s_instagram == <<"i","n","s","t","a","g","r","a","m">>
L_YouTube == <<"Y","o","u","T","u","b","e">>
L_TikTok == <<"T","i","k","T","o","k">>
L_Facebook == <<"F","a","c","e","b","o","o","k">>
s_video == <<"v","i","d","e","o">>
s_mp4 == <<"m","p","4">>
s_files == <<"/","f","i","l","e","s","/">>
DOWNLOAD_DIR == <<"d","o","w","n","l","o","a","d","s">>

(***************************************************************************)
(* download_media, lines 104-114: the platform label.                      *)
(***************************************************************************)
PlatformLabel(extractor) ==
    IF ~Truthy(extractor) THEN None
    ELSE IF Contains(s_youtube, extractor.v) THEN Some(L_YouTube)
    ELSE IF Contains(s_tiktok, extractor.v) THEN Some(L_TikTok)
    ELSE IF Contains(s_facebook, extractor.v) \/ Contains(s_instagram, extractor.v)
         THEN Some(L_Facebook)
    ELSE extractor

(***************************************************************************)
(* download_media, line 117: safe_title.                                   *)
(***************************************************************************)
\* line 117, as if only the forward slash were replaced
SafeTitleNoBackslash(title) == str_replace(OrElse(title, s_video), "/", "-")

SafeTitle(title) ==
    str_replace(str_replace(OrElse(title, s_video), "/", "-"), "\\", "-")

\* line 118, as if the template did not carry the title
OutPathFixedName(safe_title, ext) == DOWNLOAD_DIR \o <<"/">> \o s_video \o <<".">> \o ext

\* line 118 with the fetcher's %(ext)s filled in: DOWNLOAD_DIR / "<safe_title>.<ext>"
OutPath(safe_title, ext) == DOWNLOAD_DIR \o <<"/">> \o safe_title \o <<".">> \o ext

(***************************************************************************)
(* _build_public_file_url, lines 66-76.  backend is the environment        *)
(* variable (None when unset), base is str(request.base_url).              *)
(***************************************************************************)
\* lines 70-76, as if both branches removed one trailing slash
BuildUrlStripOneBoth(backend, base, filename) ==
    LET strip1(b) == IF endswith(b, "/") THEN SubSeq(b, 1, Len(b) - 1) ELSE b
    IN  IF Truthy(backend) THEN strip1(backend.v) \o s_files \o filename
        ELSE strip1(base) \o s_files \o filename

_build_public_file_url(backend, base, filename) ==
    LET env == OrElse(backend, <<>>)
    IN  IF env # <<>>
        THEN (IF endswith(env, "/") THEN SubSeq(env, 1, Len(env) - 1) ELSE env)
             \o s_files \o filename
        ELSE rstrip(base, "/") \o s_files \o filename

(***************************************************************************)
(* pathlib: Path(p).name and Path(p).suffix, lines 143-145.                *)
(***************************************************************************)
PathName(p) == SubSeq(p, rfind(p, "/") + 1, Len(p))

PathSuffix(name) ==
    LET i == rfind(name, ".")
    IN  IF 1 < i /\ i < Len(name) THEN SubSeq(name, i, Len(name)) ELSE <<>>

(***************************************************************************)
(* The environment of download_media: what requests carry, what the        *)
(* Metadata Extractor returns, what the Media Fetcher returns.             *)
(***************************************************************************)
Calls == {"c1", "c2"}
Urls == {"u1", "u2"}
s_mkv == <<"m","k","v">>
s_webm == <<"w","e","b","m">>
ReqExts == {None, Some(s_mkv)}          \* payload.ext
BaseUrls == {<<"r","/">>}               \* str(request.base_url)
BackendUrls == {None, Some(<<"h","/">>)} \* BACKEND_PUBLIC_URL
NegotiatedExts == {s_mp4, s_mkv}        \* the %(ext)s the fetcher settles on

\* info_dict of the metadata-only probe
ProbeInfos ==
    { [title |-> Some(<<"a","/","b">>), duration |-> Some(<<"7">>),
       thumbnail |-> Some(<<"t">>), extractor |-> Some(s_youtube)],
      [title |-> Some(<<"a","-","b">>), duration |-> None,
       thumbnail |-> None, extractor |-> Some(L_TikTok)],
      [title |-> None, duration |-> None,
       thumbnail |-> None, extractor |-> None] }

\* result["requested_downloads"] of the fetch, as the list of its entries'
\* "_filename" values; out is the template path the fetcher wrote, alt another
\* file it produced and reports after it
FetchReports(out, alt) ==
    { <<>>, <<Some(out)>>, <<None>>, <<Some(out), Some(alt)>> }

\* the files a returned fetch has put into DOWNLOAD_DIR: the output file at the
\* template path and every further file it reports
FetchedFiles(out, report) ==
    {out} \cup {report[i].v : i \in {j \in DOMAIN report : ~report[j].none}}

\* ydl.prepare_filename(result): the outtmpl filled in with the result's ext
prepare_filename(safe_title, ext) == Some(OutPath(safe_title, ext))

(***************************************************************************)
(* download_media, lines 133-136: which file the fetch produced.           *)
(***************************************************************************)
\* lines 133-136, as if the last reported file were taken
ResolveLast(report, prepared) ==
    IF report # <<>> THEN report[Len(report)] ELSE prepared

ResolveActual(report, prepared) ==
    IF report # <<>> THEN report[1] ELSE prepared

(***************************************************************************)
(* The optional persistence write, lines 150-169, 231-245, 296-310:        *)
(* what becomes of one create_document attempt.                            *)
(***************************************************************************)
\* the write without its try/except: a failure reaches the caller
TryPersistPropagating(mode) ==
    CASE mode = "absent" -> "skipped"
      [] mode = "ok" -> "written"
      [] mode = "throws" -> "propagated"

TryPersist(mode) ==
    CASE mode = "absent" -> "skipped"      \* create_document is None or db is None
      [] mode = "ok" -> "written"
      [] mode = "throws" -> "swallowed"    \* except Exception: pass

Attempted(outcome) == IF outcome = "skipped" THEN 0 ELSE 1

(***************************************************************************)
(* State of a download_media call.                                         *)
(***************************************************************************)
NoReq == [url |-> "", ext |-> None, base_url |-> <<>>]
NoLoc == [info |-> None, platform |-> None, safe_title |-> <<>>,
          preferred_ext |-> <<>>, negotiated |-> <<>>, report |-> <<>>,
          actual_file |-> None, filename |-> <<>>, ext |-> <<>>, file_url |-> None]
NoBody == [none |-> TRUE]
NoResp == [status |-> 0, detail |-> "", body |-> NoBody]

InitEnv ==
    /\ sinkMode \in {"absent", "ok", "throws"}
    /\ ytdlp \in BOOLEAN
    /\ backend_url \in BackendUrls

InitDownloads ==
    /\ storage = {}
    /\ sink = {}
    /\ pc = [c \in Calls |-> "idle"]
    /\ req = [c \in Calls |-> NoReq]
    /\ loc = [c \in Calls |-> NoLoc]
    /\ resp = [c \in Calls |-> NoResp]
    /\ probeCount = [c \in Calls |-> 0]
    /\ fetchCount = [c \in Calls |-> 0]
    /\ sinkAttempts = [c \in Calls |-> 0]
    /\ written = [c \in Calls |-> {}]

Fail(c, status, detail) ==
    /\ resp' = [resp EXCEPT ![c] = [status |-> status, detail |-> detail, body |-> NoBody]]
    /\ pc' = [pc EXCEPT ![c] = "done"]

\* lines 80-86: the request arrives; the lazy import of yt_dlp
Start(c) ==
    /\ pc[c] = "idle"
    /\ \E u \in Urls, e \in ReqExts, b \in BaseUrls :
           req' = [req EXCEPT ![c] = [url |-> u, ext |-> e, base_url |-> b]]
    /\ IF ytdlp
       THEN pc' = [pc EXCEPT ![c] = "probe"] /\ UNCHANGED resp
       ELSE Fail(c, 500, "yt-dlp unavailable")
    /\ UNCHANGED <<storage, sink, loc, probeCount, fetchCount, sinkAttempts, written>>
    /\ UNCHANGED <<envVars, pureVars, story, course>>

\* lines 98-99, as if the exception of the probe were swallowed
ProbeFailureIgnored(c) ==
    /\ loc' = [loc EXCEPT ![c] =
           [@ EXCEPT !.safe_title = SafeTitle(None),
                     !.preferred_ext = OrElse(req[c].ext, s_mp4)]]
    /\ pc' = [pc EXCEPT ![c] = "fetch"]
    /\ UNCHANGED resp

\* lines 98-99: the probe raised
ProbeFailure(c) ==
    /\ Fail(c, 400, "cannot analyse url")
    /\ UNCHANGED loc

\* lines 88-127: the metadata-only probe, then label, safe_title and options
Probe(c) ==
    /\ pc[c] = "probe"
    /\ probeCount' = [probeCount EXCEPT ![c] = @ + 1]
    /\ \/ ProbeFailure(c)
       \/ \E info \in ProbeInfos :
            /\ loc' = [loc EXCEPT ![c] =
                   [@ EXCEPT !.info = Some(info),
                             !.platform = PlatformLabel(info.extractor),
                             !.safe_title = SafeTitle(info.title),
                             !.preferred_ext = OrElse(req[c].ext, s_mp4)]]
            /\ pc' = [pc EXCEPT ![c] = "fetch"]
            /\ UNCHANGED resp
    /\ UNCHANGED <<storage, sink, req, fetchCount, sinkAttempts, written>>
    /\ UNCHANGED <<envVars, pureVars, story, course>>

\* lines 137-138, as if a failed fetch were tried once more
FetchFailureRetried(c) ==
    /\ IF fetchCount[c] < 1
       THEN UNCHANGED <<pc, resp>>
       ELSE Fail(c, 500, "download failed")
    /\ UNCHANGED <<loc, storage, written>>

\* lines 137-138: the fetch raised
FetchFailure(c) ==
    /\ Fail(c, 500, "download failed")
    /\ UNCHANGED <<loc, storage, written>>

\* lines 129-138: the fetch, and the reading of its result
Fetch(c) ==
    /\ pc[c] = "fetch"
    /\ fetchCount' = [fetchCount EXCEPT ![c] = @ + 1]
    /\ \/ FetchFailure(c)
       \/ \E e \in NegotiatedExts :
          \E report \in FetchReports(OutPath(loc[c].safe_title, e),
                                     OutPath(loc[c].safe_title, s_webm)) :
            /\ storage' = storage \cup FetchedFiles(OutPath(loc[c].safe_title, e), report)
            /\ written' = [written EXCEPT ![c] =
                               FetchedFiles(OutPath(loc[c].safe_title, e), report)]
            /\ loc' = [loc EXCEPT ![c] =
                   [@ EXCEPT !.negotiated = e,
                             !.report = report,
                             !.actual_file =
                                 ResolveActual(report, prepare_filename(loc[c].safe_title, e))]]
            /\ pc' = [pc EXCEPT ![c] = "resolve"]
            /\ UNCHANGED resp
    /\ UNCHANGED <<sink, req, probeCount, sinkAttempts>>
    /\ UNCHANGED <<envVars, pureVars, story, course>>

\* lines 140-148: the missing-output check, name, suffix and public URL
Resolve(c) ==
    /\ pc[c] = "resolve"
    /\ IF ~Truthy(loc[c].actual_file)
       THEN Fail(c, 500, "output missing") /\ UNCHANGED loc
       ELSE /\ loc' = [loc EXCEPT ![c] =
                   [@ EXCEPT !.filename = PathName(loc[c].actual_file.v),
                             !.ext = lstrip(PathSuffix(PathName(loc[c].actual_file.v)), "."),
                             !.file_url = Some(_build_public_file_url(
                                 backend_url, req[c].base_url,
                                 PathName(loc[c].actual_file.v)))]]
            /\ pc' = [pc EXCEPT ![c] = "persist"]
            /\ UNCHANGED resp
    /\ UNCHANGED <<storage, sink, req, probeCount, fetchCount, sinkAttempts, written>>
    /\ UNCHANGED <<envVars, pureVars, story, course>>

DownloadRecord(c) ==
    [url |-> req[c].url, title |-> loc[c].info.v.title, platform |-> loc[c].platform,
     filename |-> loc[c].filename, filepath |-> loc[c].actual_file.v,
     thumbnail |-> loc[c].info.v.thumbnail, duration |-> loc[c].info.v.duration,
     ext |-> loc[c].ext, status |-> "ready"]

DownloadResponse(c) ==
    [none |-> FALSE, url |-> req[c].url, title |-> loc[c].info.v.title,
     platform |-> loc[c].platform, duration |-> loc[c].info.v.duration,
     ext |-> loc[c].ext, filename |-> loc[c].filename,
     file_url |-> loc[c].file_url, thumbnail |-> loc[c].info.v.thumbnail]

\* lines 150-180: the best-effort write, then the response
Persist(c) ==
    /\ pc[c] = "persist"
    /\ LET outcome == TryPersist(sinkMode) IN
         /\ sinkAttempts' = [sinkAttempts EXCEPT ![c] = @ + Attempted(outcome)]
         /\ sink' = IF outcome = "written"
                    THEN sink \cup {[by |-> c, kind |-> "download", doc |-> DownloadRecord(c)]}
                    ELSE sink
         /\ IF outcome = "propagated"
            THEN Fail(c, 500, "internal server error")
            ELSE /\ resp' = [resp EXCEPT ![c] =
                        [status |-> 200, detail |-> "", body |-> DownloadResponse(c)]]
                 /\ pc' = [pc EXCEPT ![c] = "done"]
    /\ UNCHANGED <<storage, req, loc, probeCount, fetchCount, written>>
    /\ UNCHANGED <<envVars, pureVars, story, course>>

(***************************************************************************)
(* generate_story and generate_course, lines 207-318.                      *)
(***************************************************************************)
STORY_MIN == 2
STORY_MAX == 12
STORY_DEFAULT == 5
COURSE_MIN == 3
COURSE_MAX == 20
COURSE_DEFAULT == 6

NoneInt == [none |-> TRUE, v |-> 0]
Max(a, b) == IF a >= b THEN a ELSE b
Min(a, b) == IF a <= b THEN a ELSE b

\* `x or d` for an Optional[int] x: None and 0 are falsy
IntOr(o, d) == IF o.none \/ o.v = 0 THEN d ELSE o.v

UPPER == <<"A","B","C","D","E","F","G","H","I","J","K","L","M",
           "N","O","P","Q","R","S","T","U","V","W","X","Y","Z">>
LOWER == <<"a","b","c","d","e","f","g","h","i","j","k","l","m",
           "n","o","p","q","r","s","t","u","v","w","x","y","z">>
LowerChar(ch) ==
    IF \E i \in DOMAIN UPPER : UPPER[i] = ch
    THEN LOWER[CHOOSE i \in DOMAIN UPPER : UPPER[i] = ch] ELSE ch
UpperChar(ch) ==
    IF \E i \in DOMAIN LOWER : LOWER[i] = ch
    THEN UPPER[CHOOSE i \in DOMAIN LOWER : LOWER[i] = ch] ELSE ch

\* str.capitalize(): first character upper-cased, the rest lower-cased
capitalize(s) ==
    [i \in DOMAIN s |-> IF i = 1 THEN UpperChar(s[i]) ELSE LowerChar(s[i])]

template_titles ==
    <<"Origines", "Le Defi", "La Decouverte", "Le Tournant", "Resolution", "Lecon Finale">>

\* line 220
StoryCount(chapters) == Max(STORY_MIN, Min(STORY_MAX, IntOr(chapters, STORY_DEFAULT)))

\* line 280
CourseCount(lessons) == Max(COURSE_MIN, Min(COURSE_MAX, IntOr(lessons, COURSE_DEFAULT)))

\* lines 221-229
StoryChapters(r) ==
    [i \in 1..StoryCount(r.chapters) |->
        [title |-> [num |-> i, base |-> template_titles[((i - 1) % Len(template_titles)) + 1]],
         summary |-> [topic |-> capitalize(r.topic), style |-> r.style,
                      audience |-> r.audience]]]

\* lines 282-294
CourseLessons(r) ==
    [i \in 1..CourseCount(r.lessons) |->
        [title |-> [num |-> i, topic |-> r.topic],
         objectives |-> <<[concept |-> i], [topic |-> r.topic], [level |-> r.level]>>,
         content |-> [concept |-> i, topic |-> r.topic, level |-> r.level,
                      language |-> r.language, target_audience |-> r.target_audience]]]

s_narratif == <<"n","a","r","r","a","t","i","f">>
s_fr == <<"f","r">>
s_grand_public == <<"g","r","a","n","d"," ","p","u","b","l","i","c">>
s_debutant == <<"d","e","b","u","t","a","n","t">>

\* lines 247-253
StoryResponse(r) ==
    [none |-> FALSE, topic |-> r.topic, style |-> OrElse(r.style, s_narratif),
     language |-> OrElse(r.language, s_fr),
     audience |-> OrElse(r.audience, s_grand_public), chapters |-> StoryChapters(r)]

\* lines 312-318
CourseResponse(r) ==
    [none |-> FALSE, topic |-> r.topic, level |-> OrElse(r.level, s_debutant),
     language |-> OrElse(r.language, s_fr),
     target_audience |-> OrElse(r.target_audience, s_grand_public),
     lessons |-> CourseLessons(r)]

Topics == {<<"z","E","n">>}
Styles == {None, Some(<<"s">>)}
Counts == {NoneInt} \cup {[none |-> FALSE, v |-> n] : n \in -1..MaxCount}

StoryRequests ==
    {[topic |-> t, style |-> s, language |-> None, audience |-> None, chapters |-> n] :
        t \in Topics, s \in Styles, n \in Counts}
CourseRequests ==
    {[topic |-> t, level |-> s, language |-> None, target_audience |-> None, lessons |-> n] :
        t \in Topics, s \in Styles, n \in Counts}

IdleGen == [req |-> NoBody, status |-> 0, body |-> NoBody, attempts |-> 0]

InitGenerators == story = IdleGen /\ course = IdleGen

\* the whole handler of POST /api/story, lines 207-253
generate_story ==
    /\ story.status = 0
    /\ \E r \in StoryRequests :
         LET outcome == TryPersist(sinkMode) IN
           /\ sink' = IF outcome = "written"
                      THEN sink \cup {[by |-> "story", kind |-> "story",
                                       doc |-> [topic |-> r.topic, style |-> r.style,
                                                language |-> r.language,
                                                audience |-> r.audience,
                                                chapters |-> StoryChapters(r)]]}
                      ELSE sink
           /\ story' = IF outcome = "propagated"
                       THEN [req |-> r, status |-> 500, body |-> NoBody,
                             attempts |-> Attempted(outcome)]
                       ELSE [req |-> r, status |-> 200, body |-> StoryResponse(r),
                             attempts |-> Attempted(outcome)]
    /\ UNCHANGED <<envVars, pureVars, course, storage, pc, req, loc, resp,
                   probeCount, fetchCount, sinkAttempts, written>>

\* the whole handler of POST /api/course, lines 278-318
generate_course ==
    /\ course.status = 0
    /\ \E r \in CourseRequests :
         LET outcome == TryPersist(sinkMode) IN
           /\ sink' = IF outcome = "written"
                      THEN sink \cup {[by |-> "course", kind |-> "course",
                                       doc |-> [topic |-> r.topic, level |-> r.level,
                                                language |-> r.language,
                                                target_audience |-> r.target_audience,
                                                lessons |-> CourseLessons(r)]]}
                      ELSE sink
           /\ course' = IF outcome = "propagated"
                        THEN [req |-> r, status |-> 500, body |-> NoBody,
                              attempts |-> Attempted(outcome)]
                        ELSE [req |-> r, status |-> 200, body |-> CourseResponse(r),
                              attempts |-> Attempted(outcome)]
    /\ UNCHANGED <<envVars, pureVars, story, storage, pc, req, loc, resp,
                   probeCount, fetchCount, sinkAttempts, written>>

(***************************************************************************)
(* The three string functions applied on their own to bounded inputs.      *)
(***************************************************************************)
RECURSIVE StringsUpTo(_, _)
StringsUpTo(chars, n) ==
    IF n = 0 THEN {<<>>}
    ELSE StringsUpTo(chars, n - 1) \cup
         {Append(s, ch) : s \in {t \in StringsUpTo(chars, n - 1) : Len(t) = n - 1},
                          ch \in chars}

HintTokens ==
    {s_youtube, s_tiktok, s_facebook, s_instagram, <<"v","i","m","e","o">>, <<":","t","a","b">>,
     L_YouTube, L_TikTok, <<"I","n","s","t","a","g","r","a","m">>}

\* extractor names are not empty: a hint is one token or more
RECURSIVE HintsUpTo(_)
HintsUpTo(n) ==
    IF n <= 1 THEN HintTokens
    ELSE HintsUpTo(n - 1) \cup {h \o t : h \in HintsUpTo(n - 1), t \in HintTokens}

ExtractorInputs == {None} \cup {Some(h) : h \in HintsUpTo(MaxHintTokens)}
TitleInputs == {None} \cup {Some(t) : t \in StringsUpTo({"a", "/", "\\"}, MaxTitleLen)}
BackendInputs == {None} \cup {Some(b) : b \in StringsUpTo({"h", "/"}, MaxBaseLen)}
\* request.base_url starts with the scheme and host and ends with a slash
BaseInputs == {b \in StringsUpTo({"h", "/"}, MaxBaseLen) : b # <<>> /\ b[1] = "h" /\ endswith(b, "/")}
FilenameInputs == {<<"f">>, <<"a",".","m">>}

IdleLabel == [extractor |-> None, platform |-> None, done |-> FALSE]
IdleTitle == [title |-> None, safe_title |-> <<>>, done |-> FALSE]
IdleUrl == [backend |-> None, base |-> <<"h","/">>, filename |-> <<"f">>,
            file_url |-> <<>>, done |-> FALSE]

InitPureIdle == labelRun = IdleLabel /\ titleRun = IdleTitle /\ urlRun = IdleUrl

InitPure ==
    \/ /\ labelRun \in {[IdleLabel EXCEPT !.extractor = e] : e \in ExtractorInputs}
       /\ titleRun = IdleTitle /\ urlRun = IdleUrl
    \/ /\ titleRun \in {[IdleTitle EXCEPT !.title = t] : t \in TitleInputs}
       /\ labelRun = IdleLabel /\ urlRun = IdleUrl
    \/ /\ urlRun \in {[IdleUrl EXCEPT !.backend = b, !.base = r, !.filename = f] :
                         b \in BackendInputs, r \in BaseInputs, f \in FilenameInputs}
       /\ labelRun = IdleLabel /\ titleRun = IdleTitle

DerivePlatform ==
    /\ ~labelRun.done
    /\ labelRun' = [labelRun EXCEPT !.platform = PlatformLabel(labelRun.extractor),
                                    !.done = TRUE]
    /\ UNCHANGED <<envVars, dlVars, story, course, titleRun, urlRun>>

DeriveSafeTitle ==
    /\ ~titleRun.done
    /\ titleRun' = [titleRun EXCEPT !.safe_title = SafeTitle(titleRun.title),
                                    !.done = TRUE]
    /\ UNCHANGED <<envVars, dlVars, story, course, labelRun, urlRun>>

BuildUrl ==
    /\ ~urlRun.done
    /\ urlRun' = [urlRun EXCEPT
           !.file_url = _build_public_file_url(urlRun.backend, urlRun.base, urlRun.filename),
           !.done = TRUE]
    /\ UNCHANGED <<envVars, dlVars, story, course, labelRun, titleRun>>

(***************************************************************************)
(* Specifications.                                                         *)
(***************************************************************************)
\* concurrent download_media calls against one Storage Root
Init == InitEnv /\ InitDownloads /\ InitGenerators /\ InitPureIdle
Next ==
    \/ \E c \in Calls : Start(c)
    \/ \E c \in Calls : Probe(c)
    \/ \E c \in Calls : Fetch(c)
    \/ \E c \in Calls : Resolve(c)
    \/ \E c \in Calls : Persist(c)
Spec == Init /\ [][Next]_vars

\* one request to one of the three endpoints
Quiet == pc["c1"] = "idle" /\ story.status = 0 /\ course.status = 0
NextApi ==
    \/ Quiet /\ generate_story
    \/ Quiet /\ generate_course
    \/ Quiet /\ Start("c1")
    \/ Probe("c1")
    \/ Fetch("c1")
    \/ Resolve("c1")
    \/ Persist("c1")
SpecApi == Init /\ [][NextApi]_vars

\* the string functions on their own
InitStrings ==
    /\ sinkMode = "absent" /\ ytdlp = TRUE /\ backend_url = None
    /\ InitDownloads /\ InitGenerators /\ InitPure
NextStrings == DerivePlatform \/ DeriveSafeTitle \/ BuildUrl
SpecStrings == InitStrings /\ [][NextStrings]_vars

(***************************************************************************)
(* Claims.                                                                 *)
(***************************************************************************)
Done(c) == pc[c] = "done"
Succeeded(c) == Done(c) /\ resp[c].status = 200
\* the probe of call c was made and raised: info_dict was never assigned
ProbeFailed(c) == probeCount[c] >= 1 /\ loc[c].info.none
\* the fetch of call c was made and raised: result was never assigned
FetchFailed(c) == fetchCount[c] >= 1 /\ loc[c].negotiated = <<>>
\* the fetch of call c returned
FetchReturned(c) == fetchCount[c] >= 1 /\ loc[c].negotiated # <<>>
SinkDocsOf(c) == {d \in sink : d.by = c}

\* C1: whenever the metadata-only probe of a download_media call fails, the call
\* ends with HTTP 400 and, in that call, the fetch is never invoked, no file is
\* written to the Storage Root and no download record is written to the sink.
C1_ProbeFailureShortCircuits ==
    \A c \in Calls :
        ProbeFailed(c) =>
            /\ Done(c)
            /\ resp[c].status = 400
            /\ resp[c].body = NoBody
            /\ probeCount[c] = 1
            /\ fetchCount[c] = 0
            /\ written[c] = {}
            /\ sinkAttempts[c] = 0
            /\ SinkDocsOf(c) = {}

\* a call ended by a failed probe, while the other call has fetched a file
C1_Witness ==
    \E c, d \in Calls :
        /\ ProbeFailed(c) /\ Done(c) /\ resp[c].status = 400
        /\ c # d /\ written[d] # {} /\ storage # {}

\* C6: when the fetch of a download_media call raises, the call ends with HTTP
\* 500, the fetch is not retried within the call, no persistence write is
\* attempted and no response URL is produced.
C6_FetchFailureEndsCall ==
    \A c \in Calls :
        FetchFailed(c) =>
            /\ Done(c)
            /\ resp[c].status = 500
            /\ resp[c].body = NoBody
            /\ fetchCount[c] = 1
            /\ sinkAttempts[c] = 0
            /\ SinkDocsOf(c) = {}
            /\ loc[c].file_url = None

\* a call ended by a failed fetch under a sink that accepts writes
C6_Witness ==
    \E c \in Calls :
        /\ FetchFailed(c) /\ Done(c) /\ resp[c].status = 500
        /\ probeCount[c] = 1 /\ sinkMode = "ok"

\* C10: after a fetch that did not raise, the resolved file is the first reported
\* file if the fetcher reports any, else the path derived from the output
\* template; the call fails with HTTP 500 (output missing) exactly when that
\* yields no path; on success the response's filename and ext are the name and
\* suffix of the resolved path, not the requested extension.
C10_ResultResolution ==
    \A c \in Calls :
        FetchReturned(c) =>
            LET derived == DOWNLOAD_DIR \o <<"/">> \o loc[c].safe_title \o <<".">>
                           \o loc[c].negotiated
                first == loc[c].report[1]
            IN  /\ loc[c].report # <<>> => loc[c].actual_file = first
                /\ loc[c].report = <<>> => loc[c].actual_file = Some(derived)
                /\ Done(c) =>
                     /\ (resp[c].status = 500 /\ resp[c].detail = "output missing")
                            <=> (loc[c].actual_file.none \/ loc[c].actual_file.v = <<>>)
                     /\ resp[c].status \in {200, 500}
                /\ Succeeded(c) =>
                     /\ DOWNLOAD_DIR \o <<"/">> \o resp[c].body.filename
                            = loc[c].actual_file.v
                     /\ resp[c].body.filename
                            = loc[c].safe_title \o <<".">> \o resp[c].body.ext
                     /\ resp[c].body.ext = loc[c].negotiated

\* a success whose fetch reported two files and negotiated another extension
\* than the requested one
C10_Witness ==
    \E c \in Calls :
        /\ Succeeded(c)
        /\ Len(loc[c].report) = 2
        /\ loc[c].report[1] # loc[c].report[2]
        /\ resp[c].body.ext # loc[c].preferred_ext

\* C8: per download call the probe and the fetch are each invoked at most once
\* and in that order; a call that succeeds has produced exactly one StoredFile,
\* which exists in the Storage Root before its URL is handed out; a call that
\* does not succeed fails entirely: no StoredFile left behind, no record, no URL.
C8_AllOrNothing ==
    \A c \in Calls :
        /\ probeCount[c] <= 1 /\ fetchCount[c] <= 1
        /\ fetchCount[c] = 1 => probeCount[c] = 1 /\ ~loc[c].info.none
        /\ ~loc[c].file_url.none =>
               Cardinality(written[c]) = 1 /\ loc[c].actual_file.v \in storage
        /\ Succeeded(c) =>
               Cardinality(written[c]) = 1 /\ loc[c].actual_file.v \in storage
        /\ (Done(c) /\ resp[c].status # 200) =>
               /\ written[c] = {}
               /\ SinkDocsOf(c) = {}
               /\ sinkAttempts[c] = 0
               /\ loc[c].file_url.none

\* C9 as stated: two concurrent calls for the same URL each make their own probe
\* and fetch, and when both succeed their output files are two different paths.
C9_IndependentFiles ==
    \A c, d \in Calls :
        (c # d /\ Succeeded(c) /\ Succeeded(d) /\ req[c].url = req[d].url) =>
            /\ probeCount[c] = 1 /\ probeCount[d] = 1
            /\ fetchCount[c] = 1 /\ fetchCount[d] = 1
            /\ loc[c].actual_file # loc[d].actual_file
            /\ loc[c].actual_file.v \notin written[d]
            /\ loc[d].actual_file.v \notin written[c]

\* call c has resolved its output file and built its URL
Resolved(c) == ~loc[c].file_url.none

\* C9 amended: two concurrent calls for the same URL each make their own probe
\* and fetch, but once both have their output file (and so when both succeed)
\* the two files are the same path exactly when the calls derived the same safe
\* title and negotiated the same extension.
C9_SharedPath ==
    \A c, d \in Calls :
        (c # d /\ Resolved(c) /\ Resolved(d) /\ req[c].url = req[d].url) =>
            /\ probeCount[c] = 1 /\ probeCount[d] = 1
            /\ fetchCount[c] = 1 /\ fetchCount[d] = 1
            /\ (loc[c].actual_file = loc[d].actual_file)
                   <=> (/\ loc[c].safe_title = loc[d].safe_title
                        /\ loc[c].negotiated = loc[d].negotiated)
            /\ loc[c].actual_file.v \in written[c]
            /\ loc[d].actual_file.v \in written[d]

\* two calls for the same URL in flight together, both past their own fetch and
\* neither finished, holding one and the same output path
C9_Witness ==
    \E c, d \in Calls :
        /\ c # d /\ req[c].url = req[d].url
        /\ pc[c] = "persist" /\ pc[d] = "persist"
        /\ fetchCount[c] = 1 /\ fetchCount[d] = 1
        /\ loc[c].actual_file = loc[d].actual_file
        /\ Cardinality(storage) = 1

\* the response download_media gives for what the request, the probe and the
\* fetch of call c were, when persistence is disabled
ResponseWithoutSink(c) ==
    IF ~ytdlp THEN [status |-> 500, detail |-> "yt-dlp unavailable", body |-> NoBody]
    ELSE IF ProbeFailed(c)
         THEN [status |-> 400, detail |-> "cannot analyse url", body |-> NoBody]
    ELSE IF FetchFailed(c)
         THEN [status |-> 500, detail |-> "download failed", body |-> NoBody]
    ELSE IF loc[c].file_url.none
         THEN [status |-> 500, detail |-> "output missing", body |-> NoBody]
    ELSE [status |-> 200, detail |-> "",
          body |-> [none |-> FALSE, url |-> req[c].url, title |-> loc[c].info.v.title,
                    platform |-> loc[c].platform, duration |-> loc[c].info.v.duration,
                    ext |-> loc[c].ext, filename |-> loc[c].filename,
                    file_url |-> loc[c].file_url,
                    thumbnail |-> loc[c].info.v.thumbnail]]

\* C2: sink failure isolation: the status and body of /api/download, /api/story
\* and /api/course depend on the request and on what extractor and fetcher did,
\* not on the sink, so a run whose sink throws on every write answers as a run
\* with persistence disabled; the failed write is attempted once, never retried.
C2_SinkFailureIsolation ==
    /\ \A c \in Calls :
         /\ Done(c) => resp[c] = ResponseWithoutSink(c)
         /\ sinkAttempts[c] <= 1
         /\ (Succeeded(c) /\ sinkMode = "throws") =>
                sinkAttempts[c] = 1 /\ SinkDocsOf(c) = {}
    /\ story.status # 0 =>
         /\ story.status = 200
         /\ story.body.topic = story.req.topic
         /\ story.body.chapters = StoryChapters(story.req)
         /\ story.body = StoryResponse(story.req)
         /\ story.attempts = (IF sinkMode = "absent" THEN 0 ELSE 1)
    /\ course.status # 0 =>
         /\ course.status = 200
         /\ course.body.lessons = CourseLessons(course.req)
         /\ course.body = CourseResponse(course.req)
         /\ course.attempts = (IF sinkMode = "absent" THEN 0 ELSE 1)

\* a download answered 200 although its one sink write threw
C2_Witness ==
    /\ sinkMode = "throws"
    /\ Succeeded("c1")
    /\ sinkAttempts["c1"] = 1
    /\ sink = {}

\* C3: generate_story clamps the requested chapter count into [2, 12]: every
\* requested integer count c gives max(2, min(12, c)) chapters (0 gives 2, 100
\* gives 12); only a missing count takes the default 5.
C3_ChapterCountClamped ==
    story.status = 200 =>
        Len(story.body.chapters) =
            (IF story.req.chapters.none THEN 5
             ELSE IF story.req.chapters.v < 2 THEN 2
             ELSE IF story.req.chapters.v > 12 THEN 12
             ELSE story.req.chapters.v)

\* str.lower()
str_lower(s) == [i \in DOMAIN s |-> LowerChar(s[i])]

\* the label the claim gives an extractor hint: substring match on the
\* lower-cased hint, first match wins, raw hint otherwise, null only for null
ClaimedLabel(extractor) ==
    IF extractor.none THEN None
    ELSE LET low == str_lower(extractor.v)
         IN  IF Contains(s_youtube, low) THEN Some(L_YouTube)
             ELSE IF Contains(s_tiktok, low) THEN Some(L_TikTok)
             ELSE IF Contains(s_facebook, low) \/ Contains(s_instagram, low)
                  THEN Some(L_Facebook)
             ELSE extractor

\* C4: the platform label is computed by substring match on the lower-cased
\* extractor hint, first match winning in the order youtube, tiktok,
\* facebook/instagram; an unmatched hint is returned unchanged and only a
\* missing hint yields null.
C4_LabelOnLoweredHint ==
    labelRun.done => labelRun.platform = ClaimedLabel(labelRun.extractor)

\* b with exactly one trailing slash removed, when it has one
StripOneSlash(b) == IF Len(b) > 0 /\ b[Len(b)] = "/" THEN SubSeq(b, 1, Len(b) - 1) ELSE b
Slashes(k) == [i \in 1..k |-> "/"]
UrlConfigured == ~urlRun.backend.none /\ urlRun.backend.v # <<>>
UrlPrefix ==
    SubSeq(urlRun.file_url, 1, Len(urlRun.file_url) - Len(s_files) - Len(urlRun.filename))

\* C5 as stated: the result is the base (the configured one when non-empty, else
\* the request's) with exactly one trailing slash removed, then /files/<filename>.
C5_OneSlashRemoved ==
    urlRun.done =>
        urlRun.file_url =
            StripOneSlash(IF UrlConfigured THEN urlRun.backend.v ELSE urlRun.base)
            \o s_files \o urlRun.filename

\* C5 amended: the result is <prefix>/files/<filename>, where for a non-empty
\* configured base the prefix is that base with exactly one trailing slash
\* removed, and for a base derived from the request the prefix is that base with
\* all its trailing slashes removed; so a base with one trailing slash and the
\* same base without it give the same URL.
C5_JoinRule ==
    urlRun.done =>
        /\ urlRun.file_url = UrlPrefix \o s_files \o urlRun.filename
        /\ UrlConfigured =>
             /\ urlRun.backend.v \in {UrlPrefix, UrlPrefix \o <<"/">>}
             /\ (urlRun.backend.v[Len(urlRun.backend.v)] = "/")
                    => urlRun.backend.v = UrlPrefix \o <<"/">>
        /\ ~UrlConfigured =>
             /\ \E k \in 0..Len(urlRun.base) : urlRun.base = UrlPrefix \o Slashes(k)
             /\ UrlPrefix = <<>> \/ UrlPrefix[Len(UrlPrefix)] # "/"

\* a URL built from a request base that ends with two slashes
C5_Witness ==
    /\ urlRun.done
    /\ ~UrlConfigured
    /\ Len(urlRun.base) >= 3
    /\ urlRun.base[Len(urlRun.base)] = "/"
    /\ urlRun.base[Len(urlRun.base) - 1] = "/"
    /\ urlRun.base[1] = "h"

IsSeparator(ch) == ch \in {"/", "\\"}

\* C7: the base name used in the output template contains neither / nor \ (each
\* is replaced by a hyphen) and is never empty: an absent title gives "video", a
\* title made only of separators gives as many hyphens.
C7_TitleSanitized ==
    titleRun.done =>
        LET t == titleRun.title
            safe == titleRun.safe_title
        IN  /\ \A i \in DOMAIN safe : ~IsSeparator(safe[i])
            /\ safe # <<>>
            /\ t.none => safe = <<"v","i","d","e","o">>
            /\ (~t.none /\ t.v # <<>>) =>
                 /\ Len(safe) = Len(t.v)
                 /\ \A i \in DOMAIN safe :
                        safe[i] = (IF IsSeparator(t.v[i]) THEN "-" ELSE t.v[i])

\* a title made of both separators only, sanitised to hyphens
C7_Witness ==
    /\ titleRun.done
    /\ ~titleRun.title.none
    /\ Len(titleRun.title.v) >= 2
    /\ \A i \in DOMAIN titleRun.title.v : IsSeparator(titleRun.title.v[i])
    /\ \E i \in DOMAIN titleRun.title.v : titleRun.title.v[i] = "\\"
    /\ \E i \in DOMAIN titleRun.title.v : titleRun.title.v[i] = "/"
    /\ \A i \in DOMAIN titleRun.safe_title : titleRun.safe_title[i] = "-"
====
